---- MODULE Spec2Model ----
(***************************************************************************)
(* visualize.py: a literal table of image counts per tumour class is put   *)
(* into a pandas DataFrame, indexed by class name, drawn as a stacked bar  *)
(* chart, labelled and shown.  The module body is a straight line of       *)
(* statements; each statement is one action.  The pandas and matplotlib    *)
(* calls are modelled by what they compute on the frame and on the axes.   *)
(***************************************************************************)
EXTENDS Integers, Sequences, FiniteSets, TLC

VARIABLES
    pc,        \* the statement of the module body that runs next
    data,      \* the dict of line 5: column name -> list
    df,        \* the DataFrame of line 12, re-indexed in place by line 15
    ax,        \* the Axes returned by df.plot (line 18)
    shown,     \* what plt.show() has displayed: one snapshot of ax per call
    trace,     \* the statements that have completed, in order
    raised,    \* the exception that ended the run, if any
    exitcode,  \* the process's exit status once pc = "exited", -1 before
    tables,    \* every table lines 12-15 have produced so far
    runs       \* how many times lines 12-15 have been started

vars == <<pc, data, df, ax, shown, trace, raised, exitcode, tables, runs>>

----------------------------------------------------------------------------
(* Bounds of the inputs the model is run on. *)

MaxLen == 2
MaxVal == 2
MaxRuns == 3

----------------------------------------------------------------------------
(* The data of the script and the inputs the model generalises it to. *)

Range(s) == {s[i] : i \in 1..Len(s)}

\* The keys of the dict literal, in insertion order (lines 6, 7, 8).
DataKeys == <<"Class Name", "Training", "Testing">>

MkData(c, tr, te) ==
    ("Class Name" :> c) @@ ("Training" :> tr) @@ ("Testing" :> te)

\* Lines 5-9.
LiteralData ==
    MkData(<<"Glioma", "Meningioma", "No tumor", "Pituitary">>,
           <<1100, 1144, 1241, 1370>>,
           <<221, 195, 216, 225>>)

Names == {"Glioma", "Meningioma", "Pituitary"}

\* Image counts, positive as every count of the script is.  (Where a
\* zero-height segment starts is the one point on which pandas releases
\* differ, y > 0 against y >= 0 in the mask of StackStart; no count of the
\* script is zero.)
Counts == 1..MaxVal

SeqsUpTo(S) == UNION {[1..n -> S] : n \in 0..MaxLen}

\* The literal with the last element of one series missing: four categories
\* and a series of three.
MalformedLiterals ==
    {[LiteralData EXCEPT ![k] = SubSeq(@, 1, Len(@) - 1)] :
        k \in {"Training", "Testing"}}

\* The literal of the script, and every dict of the same three keys whose
\* lists have up to MaxLen elements: equal or unequal lengths, repeated or
\* distinct names, any declaration order.
Inputs ==
    {LiteralData} \cup MalformedLiterals \cup
    {MkData(c, tr, te) : c \in SeqsUpTo(Names),
                         tr \in SeqsUpTo(Counts), te \in SeqsUpTo(Counts)}

----------------------------------------------------------------------------
(* pandas.DataFrame(data), for a dict of lists. *)

NoFrame ==
    [defined |-> FALSE, index_name |-> "", index |-> <<>>,
     columns |-> <<>>, col |-> <<>>, dtype |-> <<>>]

\* The dtype pandas infers for a column built from a list: an empty list and
\* a list of str give object, a list of int gives int64.  The class-name
\* column is the one that holds str.
InferDtype(key, list) ==
    IF list = <<>> \/ key = "Class Name" THEN "object" ELSE "int64"

\* Mutant: only the first series is compared with the categories.
DataFrameRaisesFirstSeriesOnly(d) == Len(d["Training"]) # Len(d["Class Name"])

\* ValueError("All arrays must be of the same length").
DataFrameRaises(d) ==
    \E a \in Range(DataKeys) : \E b \in Range(DataKeys) : Len(d[a]) # Len(d[b])

\* Mutant: an off-by-one row count, the last row is lost.
DataFrameDropsLastRow(d) ==
    LET n == Len(d[DataKeys[1]])
        m == IF n = 0 THEN 0 ELSE n - 1 IN
    [defined    |-> TRUE,
     index_name |-> "",
     index      |-> [i \in 1..m |-> i - 1],
     columns    |-> DataKeys,
     col        |-> [c \in Range(DataKeys) |-> SubSeq(d[c], 1, m)],
     dtype      |-> [c \in Range(DataKeys) |-> InferDtype(c, d[c])]]

\* Columns in key order, a copy of each list, a RangeIndex 0..n-1.
DataFrame(d) ==
    LET n == Len(d[DataKeys[1]]) IN
    [defined    |-> TRUE,
     index_name |-> "",
     index      |-> [i \in 1..n |-> i - 1],
     columns    |-> DataKeys,
     col        |-> [c \in Range(DataKeys) |-> d[c]],
     dtype      |-> [c \in Range(DataKeys) |-> InferDtype(c, d[c])]]

----------------------------------------------------------------------------
(* DataFrame.set_index(key, inplace=True): drop=True, append=False and     *)
(* verify_integrity=False are the defaults.                                *)

\* Mutant: verify_integrity=True, repeated labels are refused as well.
SetIndexRaisesOnDuplicates(f, key) ==
    IF key \notin Range(f.columns) THEN TRUE
    ELSE \E i \in 1..Len(f.col[key]) : \E j \in 1..Len(f.col[key]) :
            i # j /\ f.col[key][i] = f.col[key][j]

\* KeyError: the key is no column of the frame.
SetIndexRaises(f, key) == key \notin Range(f.columns)

\* Mutant: drop=False, the key column stays a column.
set_indexKeepsColumn(f, key) ==
    [defined    |-> TRUE,
     index_name |-> key,
     index      |-> f.col[key],
     columns    |-> f.columns,
     col        |-> f.col,
     dtype      |-> f.dtype]

set_index(f, key) ==
    LET rest == SelectSeq(f.columns, LAMBDA c : c # key) IN
    [defined    |-> TRUE,
     index_name |-> key,
     index      |-> f.col[key],
     columns    |-> rest,
     col        |-> [c \in Range(rest) |-> f.col[c]],
     dtype      |-> [c \in Range(rest) |-> f.dtype[c]]]

----------------------------------------------------------------------------
(* DataFrame.plot(kind='bar', stacked=True): pandas' BarPlot.  Only the    *)
(* numeric columns are drawn; each becomes one container of rectangles,    *)
(* one rectangle per row, at x position 0..n-1 in row order.               *)

NoAxes ==
    [defined |-> FALSE, title |-> "", xlabel |-> "", ylabel |-> "",
     xticklabels |-> <<>>, containers |-> <<>>,
     legend |-> [title |-> "", labels |-> <<>>], tight |-> FALSE]

NumericColumns(f) == SelectSeq(f.columns, LAMBDA c : f.dtype[c] = "int64")

\* TypeError("no numeric data to plot").
PlotRaises(f) == NumericColumns(f) = <<>>

\* pos_prior and neg_prior of BarPlot._make_plot before column k is drawn:
\* the running sums, per row, of the positive and of the other values of
\* the columns drawn so far.
RECURSIVE pos_prior(_, _, _, _)
pos_prior(f, cols, k, i) ==
    IF k = 1 THEN 0
    ELSE LET y == f.col[cols[k - 1]][i] IN
         pos_prior(f, cols, k - 1, i) + (IF y > 0 THEN y ELSE 0)

RECURSIVE neg_prior(_, _, _, _)
neg_prior(f, cols, k, i) ==
    IF k = 1 THEN 0
    ELSE LET y == f.col[cols[k - 1]][i] IN
         neg_prior(f, cols, k - 1, i) + (IF y > 0 THEN 0 ELSE y)

\* Mutant: stacked=False, every rectangle starts at the baseline.
StackStartUnstacked(f, cols, k, i) == 0

\* start = np.where(y > 0, pos_prior, neg_prior): where the rectangle of
\* column k, row i begins.
StackStart(f, cols, k, i) ==
    IF f.col[cols[k]][i] > 0 THEN pos_prior(f, cols, k, i)
                             ELSE neg_prior(f, cols, k, i)

\* Mutant: the columns are drawn last to first.
BarContainersReversed(f) ==
    LET cols == NumericColumns(f)
        K == Len(cols) IN
    [k \in 1..K |->
        [label   |-> cols[K + 1 - k],
         patches |-> [i \in 1..Len(f.index) |->
                        [x      |-> i - 1,
                         bottom |-> StackStart(f, cols, K + 1 - k, i),
                         height |-> f.col[cols[K + 1 - k]][i]]]]]

\* The containers ax.bar adds, one per numeric column in column order.
BarContainers(f) ==
    LET cols == NumericColumns(f) IN
    [k \in 1..Len(cols) |->
        [label   |-> cols[k],
         patches |-> [i \in 1..Len(f.index) |->
                        [x      |-> i - 1,
                         bottom |-> StackStart(f, cols, k, i),
                         height |-> f.col[cols[k]][i]]]]]

\* Mutant: the rows are sorted by label before they are drawn.
BarPlotSorted(f) ==
    LET n == Len(f.index)
        rank(l) == CASE l = "Glioma" -> 1 [] l = "Meningioma" -> 2
                     [] l = "No tumor" -> 3 [] OTHER -> 4
        p == CHOOSE q \in [1..n -> 1..n] :
                \A i \in 1..n : \A j \in 1..n :
                    i < j => \/ rank(f.index[q[i]]) < rank(f.index[q[j]])
                             \/ /\ rank(f.index[q[i]]) = rank(f.index[q[j]])
                                /\ q[i] < q[j]
        g == [f EXCEPT !.index = [i \in 1..n |-> f.index[p[i]]],
                       !.col = [c \in DOMAIN f.col |->
                                   [i \in 1..n |-> f.col[c][p[i]]]]] IN
    [defined     |-> TRUE,
     title       |-> "",
     xlabel      |-> g.index_name,
     ylabel      |-> "",
     xticklabels |-> g.index,
     containers  |-> BarContainers(g),
     legend      |-> [title |-> "", labels |-> NumericColumns(g)],
     tight       |-> FALSE]

\* The Axes df.plot returns: tick labels are the index labels in row order,
\* the x label is the index name, the default legend lists the columns.
BarPlot(f) ==
    [defined     |-> TRUE,
     title       |-> "",
     xlabel      |-> f.index_name,
     ylabel      |-> "",
     xticklabels |-> f.index,
     containers  |-> BarContainers(f),
     legend      |-> [title |-> "", labels |-> NumericColumns(f)],
     tight       |-> FALSE]

\* Axes.legend(title=...): a new legend of the labelled containers.
Legend(a, t) ==
    [title  |-> t,
     labels |-> [k \in 1..Len(a.containers) |-> a.containers[k].label]]

----------------------------------------------------------------------------
(* The module body, lines 12-30, one action per statement. *)

\* Mutant: the chart is shown before it is labelled.
StepsShowBeforeLabels ==
    <<"DataFrame", "set_index", "plot", "show", "set_title", "set_xlabel",
      "set_ylabel", "legend", "tight_layout">>

Steps ==
    <<"DataFrame", "set_index", "plot", "set_title", "set_xlabel",
      "set_ylabel", "legend", "tight_layout", "show">>

StepNo(s) == CHOOSE i \in 1..Len(Steps) : Steps[i] = s

\* The statement after s; after the last one the script is at its end.
NextPc(s) == IF StepNo(s) = Len(Steps) THEN "end" ELSE Steps[StepNo(s) + 1]

NoException == [at |-> "", type |-> ""]

Init ==
    /\ pc = "DataFrame"
    /\ data \in Inputs
    /\ df = NoFrame
    /\ ax = NoAxes
    /\ shown = <<>>
    /\ trace = <<>>
    /\ raised = NoException
    /\ exitcode = -1
    /\ tables = <<>>
    /\ runs = 1

\* Statement s returns normally.
Completed(s) ==
    /\ pc' = NextPc(s)
    /\ trace' = Append(trace, s)

\* Mutant: the exception is caught and the script goes on.
Swallowed(s, exc) ==
    /\ pc' = NextPc(s)
    /\ raised' = [at |-> s, type |-> exc]
    /\ UNCHANGED <<data, df, ax, shown, trace, exitcode, tables, runs>>

\* Statement s raises: nothing in the module catches, so the interpreter
\* reports the exception and the process ends with status 1.
Unhandled(s, exc) ==
    /\ pc' = "exited"
    /\ exitcode' = 1
    /\ raised' = [at |-> s, type |-> exc]
    /\ UNCHANGED <<data, df, ax, shown, trace, tables, runs>>

\* Line 12.
DataFrameStep ==
    /\ pc = "DataFrame"
    /\ IF DataFrameRaises(data)
       THEN Unhandled("DataFrame", "ValueError")
       ELSE /\ df' = DataFrame(data)
            /\ Completed("DataFrame")
            /\ UNCHANGED <<data, ax, shown, raised, exitcode, tables, runs>>

\* Mutant: the frame shares the dict's lists, and moving the key column into
\* the index empties the caller's list.
SetIndexStepClearsInput ==
    /\ pc = "set_index"
    /\ IF SetIndexRaises(df, "Class Name")
       THEN Unhandled("set_index", "KeyError")
       ELSE /\ df' = set_index(df, "Class Name")
            /\ tables' = Append(tables, df')
            /\ data' = [data EXCEPT !["Class Name"] = <<>>]
            /\ Completed("set_index")
            /\ UNCHANGED <<ax, shown, raised, exitcode, runs>>

\* Line 15.
SetIndexStep ==
    /\ pc = "set_index"
    /\ IF SetIndexRaises(df, "Class Name")
       THEN Unhandled("set_index", "KeyError")
       ELSE /\ df' = set_index(df, "Class Name")
            /\ tables' = Append(tables, df')
            /\ Completed("set_index")
            /\ UNCHANGED <<data, ax, shown, raised, exitcode, runs>>

\* Line 18.
PlotStep ==
    /\ pc = "plot"
    /\ IF PlotRaises(df)
       THEN Unhandled("plot", "TypeError")
       ELSE /\ ax' = BarPlot(df)
            /\ Completed("plot")
            /\ UNCHANGED <<data, df, shown, raised, exitcode, tables, runs>>

\* Line 21.
SetTitleStep ==
    /\ pc = "set_title"
    /\ ax' = [ax EXCEPT !.title = "Brain Tumor Image Dataset (Training vs Testing)"]
    /\ Completed("set_title")
    /\ UNCHANGED <<data, df, shown, raised, exitcode, tables, runs>>

\* Line 22.
SetXlabelStep ==
    /\ pc = "set_xlabel"
    /\ ax' = [ax EXCEPT !.xlabel = "Tumor Class"]
    /\ Completed("set_xlabel")
    /\ UNCHANGED <<data, df, shown, raised, exitcode, tables, runs>>

\* Line 23.
SetYlabelStep ==
    /\ pc = "set_ylabel"
    /\ ax' = [ax EXCEPT !.ylabel = "Number of Images"]
    /\ Completed("set_ylabel")
    /\ UNCHANGED <<data, df, shown, raised, exitcode, tables, runs>>

\* Line 26.
LegendStep ==
    /\ pc = "legend"
    /\ ax' = [ax EXCEPT !.legend = Legend(ax, "Subset")]
    /\ Completed("legend")
    /\ UNCHANGED <<data, df, shown, raised, exitcode, tables, runs>>

\* Line 29.
TightLayoutStep ==
    /\ pc = "tight_layout"
    /\ ax' = [ax EXCEPT !.tight = TRUE]
    /\ Completed("tight_layout")
    /\ UNCHANGED <<data, df, shown, raised, exitcode, tables, runs>>

\* Line 30: the figure as it is now is displayed; the call returns when the
\* display is over.
ShowStep ==
    /\ pc = "show"
    /\ shown' = Append(shown, ax)
    /\ Completed("show")
    /\ UNCHANGED <<data, df, ax, raised, exitcode, tables, runs>>

\* The end of the file: the interpreter exits with status 0.
Exit ==
    /\ pc = "end"
    /\ pc' = "exited"
    /\ exitcode' = 0
    /\ UNCHANGED <<data, df, ax, shown, trace, raised, tables, runs>>

\* The statements that need the plotting backend, lines 18-30.
RenderSteps ==
    {"plot", "set_title", "set_xlabel", "set_ylabel", "legend",
     "tight_layout", "show"}

\* A rendering call fails for a reason outside the data (no usable backend,
\* no display): the exception is unhandled like any other.
Raise ==
    /\ pc \in RenderSteps
    /\ Unhandled(pc, "Exception")

Next ==
    \/ DataFrameStep
    \/ SetIndexStep
    \/ PlotStep
    \/ SetTitleStep
    \/ SetXlabelStep
    \/ SetYlabelStep
    \/ LegendStep
    \/ TightLayoutStep
    \/ ShowStep
    \/ Exit
    \/ Raise

Spec == Init /\ [][Next]_vars

----------------------------------------------------------------------------
(* Lines 12-15 run again on the same data, as a caller of build_table would *)
(* run them: the name df is rebound, data is whatever the last run left.    *)

Rerun ==
    /\ pc = "plot"
    /\ runs < MaxRuns
    /\ pc' = "DataFrame"
    /\ runs' = runs + 1
    /\ UNCHANGED <<data, df, ax, shown, trace, raised, exitcode, tables>>

NextRerun ==
    \/ DataFrameStep
    \/ SetIndexStep
    \/ Rerun

SpecRerun == Init /\ [][NextRerun]_vars

----------------------------------------------------------------------------
(* Vocabulary of the properties. *)

Categories == data["Class Name"]

\* A series whose length is not the number of categories.
Mismatch ==
    \/ Len(data["Training"]) # Len(Categories)
    \/ Len(data["Testing"]) # Len(Categories)

Distinct(s) == \A i \in 1..Len(s) : \A j \in 1..Len(s) : i # j => s[i] # s[j]

\* Lines 12 and 15 are both behind the run.
PastBuild == pc \notin {"DataFrame", "set_index"}

\* The table the last run of lines 12-15 produced.
Table == tables[Len(tables)]

\* The (Training, Testing) pair the table holds for its row i.
Row(t, i) == <<t.col["Training"][i], t.col["Testing"][i]>>

\* The upper bound of the last stacked segment of bar i.
StackTop(a, i) ==
    LET last == a.containers[Len(a.containers)].patches[i] IN
    last.bottom + last.height

\* The statements before statement s, in file order.
StepsBefore(s) ==
    LET all == <<"DataFrame", "set_index", "plot", "set_title", "set_xlabel",
                 "set_ylabel", "legend", "tight_layout", "show">>
        n == CHOOSE i \in 1..Len(all) : all[i] = s IN
    SubSeq(all, 1, n - 1)

----------------------------------------------------------------------------
(* C1: for the literal data of the script, the table lines 12-15 build has *)
(* exactly the rows Glioma -> (1100, 221), Meningioma -> (1144, 195),      *)
(* No tumor -> (1241, 216), Pituitary -> (1370, 225), in the two series    *)
(* Training and Testing, and no other row or series.                       *)
C1_LiteralTable ==
    (data = LiteralData /\ PastBuild) =>
        /\ Len(tables) = 1
        /\ Table.index = <<"Glioma", "Meningioma", "No tumor", "Pituitary">>
        /\ Table.columns = <<"Training", "Testing">>
        /\ DOMAIN Table.col = {"Training", "Testing"}
        /\ Row(Table, 1) = <<1100, 221>>
        /\ Row(Table, 2) = <<1144, 195>>
        /\ Row(Table, 3) = <<1241, 216>>
        /\ Row(Table, 4) = <<1370, 225>>
        /\ Len(Table.col["Training"]) = 4
        /\ Len(Table.col["Testing"]) = 4

C1_Witness == data = LiteralData /\ pc = "plot" /\ Len(tables) = 1

(* C2: when a series' length differs from the number of categories, table  *)
(* construction fails: pd.DataFrame raises ValueError, no frame and no     *)
(* table exist, and the run has ended there.                               *)
C2_MismatchRejected ==
    Mismatch =>
        /\ tables = <<>>
        /\ ~df.defined
        /\ pc # "DataFrame" =>
              /\ pc = "exited"
              /\ raised = [at |-> "DataFrame", type |-> "ValueError"]

C2_Witness ==
    /\ Len(Categories) = 4
    /\ Len(data["Training"]) = 4
    /\ Len(data["Testing"]) = 3
    /\ pc = "exited"
    /\ raised.at = "DataFrame"

(* C3, as claimed: table construction fails when two positions of          *)
(* 'Class Name' hold the same name, so every table that is produced has    *)
(* pairwise distinct categories.                                           *)
C3_DuplicatesRejected ==
    \A n \in 1..Len(tables) : Distinct(tables[n].index)

(* C3, amended: set_index does not check uniqueness.  With series of the   *)
(* categories' length, a table is produced whether or not names repeat; it *)
(* has one row per input position, a repeated name labelling each of its   *)
(* positions, so its categories are pairwise distinct exactly when the     *)
(* input's are, as they are for the literal data of the script.            *)
C3_DuplicatesKept ==
    /\ (~Mismatch /\ PastBuild) =>
          /\ Len(tables) = 1
          /\ Len(Table.index) = Len(Categories)
          /\ Distinct(Table.index) <=> Distinct(Categories)
          /\ raised.at \notin {"DataFrame", "set_index"}
    /\ data = LiteralData => Distinct(Categories)

C3_Witness ==
    /\ ~Distinct(Categories)
    /\ pc = "plot"
    /\ Len(tables) = 1
    /\ ~Distinct(Table.index)

(* C4: the rows of the table, and the bars of the chart from left to       *)
(* right, are in the declaration order of the categories, sorted or not:   *)
(* neither construction nor set_index nor plot reorders them.              *)
C4_DeclarationOrder ==
    /\ (~Mismatch /\ PastBuild) => Table.index = Categories
    /\ ax.defined =>
          /\ ax.xticklabels = Categories
          /\ \A k \in 1..Len(ax.containers) :
                /\ Len(ax.containers[k].patches) = Len(Categories)
                /\ \A i \in 1..Len(Categories) :
                      /\ ax.containers[k].patches[i].x = i - 1
                      /\ ax.containers[k].patches[i].height
                            = data[ax.containers[k].label][i]
    /\ \A n \in 1..Len(shown) : shown[n].xticklabels = Categories

C4_Witness ==
    /\ Categories = <<"Pituitary", "Glioma">>
    /\ Len(shown) = 1
    /\ shown[1].xticklabels = <<"Pituitary", "Glioma">>

(* C5: the top of the stacked bar of category i, the upper bound of its    *)
(* last segment, is Training[i] + Testing[i]; for the literal data the     *)
(* tops are 1321, 1339, 1457 and 1595.                                     *)
C5_StackTop ==
    ax.defined =>
        /\ \A i \in 1..Len(Categories) :
              StackTop(ax, i) = data["Training"][i] + data["Testing"][i]
        /\ data = LiteralData =>
              /\ StackTop(ax, 1) = 1321
              /\ StackTop(ax, 2) = 1339
              /\ StackTop(ax, 3) = 1457
              /\ StackTop(ax, 4) = 1595

C5_Witness == data = LiteralData /\ ax.defined /\ StackTop(ax, 1) = 1321

(* C6: for every input whose series have the categories' length, the table *)
(* has as many rows as there are input categories, every series of the     *)
(* table has one value per category, and the value at position i of a      *)
(* series belongs to the category at position i.                           *)
C6_RowsByPosition ==
    (~Mismatch /\ PastBuild) =>
        /\ tables # <<>>
        /\ Len(Table.index) = Len(Categories)
        /\ \A c \in Range(Table.columns) :
              /\ Len(Table.col[c]) = Len(Categories)
              /\ \A i \in 1..Len(Categories) :
                    /\ Table.index[i] = Categories[i]
                    /\ Table.col[c][i] = data[c][i]

C6_Witness ==
    /\ Len(Categories) = MaxLen
    /\ PastBuild
    /\ tables # <<>>
    /\ Len(Table.index) = MaxLen

C8_SuccessfulRun ==
    /\ Len(shown) <= 1
    /\ (pc = "exited" /\ exitcode = 0) =>
          /\ raised = NoException
          /\ trace = <<"DataFrame", "set_index", "plot", "set_title",
                       "set_xlabel", "set_ylabel", "legend", "tight_layout",
                       "show">>
          /\ Len(shown) = 1
          /\ shown[1].title = "Brain Tumor Image Dataset (Training vs Testing)"
          /\ shown[1].xlabel = "Tumor Class"
          /\ shown[1].ylabel = "Number of Images"
          /\ shown[1].legend = [title |-> "Subset",
                                labels |-> <<"Training", "Testing">>]
    /\ pc = "end" => (raised = NoException /\ Len(shown) = 1)

C8_Witness == pc = "exited" /\ exitcode = 0 /\ Len(shown) = 1

(* C9: a statement that fails ends the run there, unhandled: the run is    *)
(* over with a status other than 0, exactly the statements before the      *)
(* failing one have run and none after it, nothing has been displayed, and *)
(* a failed table construction leaves no table and no chart.               *)
C9_FailureTerminates ==
    /\ raised # NoException =>
          /\ pc = "exited"
          /\ exitcode = 1
          /\ trace = StepsBefore(raised.at)
          /\ shown = <<>>
          /\ raised.at \in {"DataFrame", "set_index"} =>
                (tables = <<>> /\ ~ax.defined)
    /\ (pc = "exited" /\ raised = NoException) => exitcode = 0
    /\ pc # "exited" => (raised = NoException /\ exitcode = -1)

C9_Witness ==
    /\ raised.at = "legend"
    /\ pc = "exited"
    /\ exitcode = 1
    /\ ax.defined

(* C10: the chart has one bar per category and, in each bar, one segment   *)
(* per series in declaration order, Training below Testing, the            *)
(* 'Class Name' column giving the labels and no segment; each segment      *)
(* starts where the segments of the earlier series end and extends by its  *)
(* own value: Training spans [0, Training[i]], Testing spans               *)
(* [Training[i], Training[i] + Testing[i]].                                *)
C10_CumulativeStacking ==
    ax.defined =>
        /\ Len(ax.containers) = 2
        /\ ax.containers[1].label = "Training"
        /\ ax.containers[2].label = "Testing"
        /\ \A k \in 1..2 : Len(ax.containers[k].patches) = Len(Categories)
        /\ \A i \in 1..Len(Categories) :
              /\ ax.containers[1].patches[i].bottom = 0
              /\ ax.containers[1].patches[i].height = data["Training"][i]
              /\ ax.containers[2].patches[i].bottom = data["Training"][i]
              /\ ax.containers[2].patches[i].height = data["Testing"][i]
              /\ \A k \in 2..Len(ax.containers) :
                    ax.containers[k].patches[i].bottom
                        = ax.containers[k - 1].patches[i].bottom
                          + ax.containers[k - 1].patches[i].height

C10_Witness ==
    /\ ax.defined
    /\ Len(Categories) = MaxLen
    /\ ax.containers[2].patches[MaxLen].bottom = MaxVal
    /\ ax.containers[2].patches[MaxLen].height = 1

====
